---- MODULE Spec2Model ----
(***************************************************************************)
(* ConformanceValidator of validators/python/validate.py as a state        *)
(* machine.  One validator object runs its suite (run_all_tests) and       *)
(* writes reports (generate_report).  The test-vector document is the      *)
(* input: the number of tests is fixed when the validator is constructed,  *)
(* and the content of each test, step and assertion is read (drawn from a  *)
(* small set) when the loop that consumes it reaches it.  The              *)
(* implementation under test is the environment: each call on the subject  *)
(* either returns (with a result or an effect drawn from a small set) or   *)
(* raises an Exception, and each hasattr probe for advance_time answers    *)
(* either way.                                                             *)
(*                                                                         *)
(* Numbers are fixed-point, in units of 1/10000 (0.5 is 5000, 0.001 is     *)
(* 10).                                                                    *)
(***************************************************************************)
EXTENDS Integers, Sequences, FiniteSets, TLC

VARIABLES
    nTests,          \* len(self.test_data['tests'])
    results,         \* self.results
    report,          \* the report generate_report wrote since the last run_all_tests call
    pc,              \* control location of the validator ("init": constructed, no call
                     \* of run_all_tests yet; "idle": run_all_tests has returned)
    base,            \* history: len(self.results) when run_all_tests was last called
    ti,              \* run_all_tests: number of tests taken from the document
    passed,          \* run_all_tests: local passed
    failed,          \* run_all_tests: local failed
    suiteRet,        \* the value the last run_all_tests call returned
    test,            \* run_test: the test being run (its id and the lengths of its lists)
    setup,           \* the setup the last step read from the document (NoSetup: none)
    step,            \* the step the last step read from the document (NoStep: none)
    assertion,       \* the assertion the last step read from the document (NoAssertion: none)
    si,              \* run_test: number of steps taken from test['steps']
    ai,              \* run_test: number of assertions taken from test['assertions']
    state,           \* run_test: the subject last constructed (attribute name -> value)
    all_passed,      \* run_test: local all_passed
    ret,             \* the value the last run_test call returned
    diag,            \* the diagnostic line printed last ("none": nothing printed)
    exc,             \* the exception that reached run_test's try block in the last step
    calls,           \* the calls the last step made on the subject
    anyFailed,       \* history: an assertion of the current test evaluated to a failure
    captured,        \* history: a get_recommended_action step of the current test returned
    snapshot,        \* history: what recommended_action() returned at the latest such step
    causes           \* history: per test of the current run, the line that closed it

vars == <<nTests, results, report, pc, base, ti, passed, failed, suiteRet, test,
          setup, step, assertion, si, ai, state, all_passed, ret, diag, exc,
          calls, anyFailed, captured, snapshot, causes>>

(***************************************************************************)
(* Bounds of the model.                                                    *)
(***************************************************************************)
MaxTests == 2
MaxSteps == 2
MaxAsserts == 2
\* run_all_tests is not called once self.results could grow to this.
MaxResults == 3

(***************************************************************************)
(* Program constants.                                                      *)
(***************************************************************************)
DecayInterval == 300
DefaultTolerance == 10

(***************************************************************************)
(* Values: JSON scalars and what the subject holds.                        *)
(***************************************************************************)
Num(n) == [k |-> "num", n |-> n, s |-> ""]
Str(s) == [k |-> "str", n |-> 0, s |-> s]
Dict(name) == [k |-> "dict", n |-> 0, s |-> name]
Method(name) == [k |-> "method", n |-> 0, s |-> name]
Absent == [k |-> "absent", n |-> 0, s |-> ""]
\* float('nan'): a float that is not a number.
NaN == [k |-> "nan", n |-> 0, s |-> ""]
Obj == [k |-> "obj", n |-> 0, s |-> ""]

\* A call on the implementation under test, with its argument (0: none).
CallWith(name, arg) == [name |-> name, arg |-> arg]
Call(name) == CallWith(name, 0)

\* The attributes of a subject that the model tracks.
Attrs == {"trust", "metadata", "_recommended_action"}

\* The entries of the one mapping the subject holds (metadata).
DictKeys(value) == IF value = Dict("metadata") THEN {"trend", "items"} ELSE {}
DictGet(value, key) == Str("soothe")
\* Attributes every Python dict exposes.
DictAttrs == {"items", "keys"}

\* The document's value sets.
Seconds == {0, 299, 300, 899}
TrustVals == {Num(6000), NaN}
ActionVals == {Str("soothe"), Str("engage")}
ExpectedVals == {Num(6000), Str("soothe")}
Tolerances == {1000}
SetupActions == {"initialize", "reset"}
UnknownStepActions == {"teleport"}
AssertTypes == {"equals", "approximately", "matches"}
Paths == {<<"trust">>, <<"recommended_action">>, <<"mood">>,
          <<"metadata", "trend">>, <<"metadata", "items">>,
          <<"metadata", "nosuch">>}

NoInitialState == [a \in Attrs |-> Absent]
InitialStates ==
    { NoInitialState,
      [NoInitialState EXCEPT !["trust"] = Num(6000)],
      [NoInitialState EXCEPT !["_recommended_action"] = Str("soothe")] }

\* The items of the document.  An assertion without a tolerance key has
\* has_tolerance FALSE (its tolerance field is then not read).
Setups == [action : SetupActions, initial_state : InitialStates]
Steps ==
    [action : {"process_event", "get_recommended_action"} \cup UnknownStepActions,
     seconds : {0}, native : {FALSE}]
    \cup [action : {"advance_time"}, seconds : Seconds, native : BOOLEAN]
Assertions ==
    [path : Paths, expected : ExpectedVals, type : AssertTypes \ {"approximately"},
     has_tolerance : {FALSE}, tolerance : {0}]
    \cup [path : Paths, expected : ExpectedVals, type : {"approximately"},
          has_tolerance : {FALSE}, tolerance : {0}]
    \cup [path : Paths, expected : ExpectedVals, type : {"approximately"},
          has_tolerance : {TRUE}, tolerance : Tolerances]

NoSetup == [action |-> "none", initial_state |-> NoInitialState]
NoStep == [action |-> "none", seconds |-> 0, native |-> FALSE]
NoAssertion == [path |-> <<>>, expected |-> Absent, type |-> "none",
                has_tolerance |-> FALSE, tolerance |-> 0]
NoState == [a \in Attrs |-> Absent]
NoTest == [id |-> 0, nSteps |-> 0, nAsserts |-> 0]
NoReport == [total |-> 0, passed |-> 0, failed |-> 0, errors |-> 0,
             pass_rate |-> <<0, 1>>, test_details |-> <<>>,
             conformance_statement |-> "none"]

(***************************************************************************)
(* get_nested_value                                                        *)
(***************************************************************************)
\* hasattr(value, key)
HasAttr(st, value, key) ==
    CASE value.k = "obj"  -> key \in DOMAIN st /\ st[key] # Absent
      [] value.k = "dict" -> key \in DictAttrs
      [] OTHER            -> FALSE

\* getattr(value, key)
GetAttr(st, value, key) ==
    IF value.k = "obj" THEN st[key] ELSE Method(key)

\* Mutant: a mapping is asked for its entry before its attributes.
RECURSIVE ResolveKeyFirst(_, _, _)
ResolveKeyFirst(st, value, keys) ==
    IF keys = <<>>
    THEN [exc |-> "none", v |-> value]
    ELSE LET key == Head(keys) IN
         IF value.k = "dict" /\ key \in DictKeys(value)
         THEN ResolveKeyFirst(st, DictGet(value, key), Tail(keys))
         ELSE IF HasAttr(st, value, key)
              THEN ResolveKeyFirst(st, GetAttr(st, value, key), Tail(keys))
              ELSE IF value.k = "dict"
                   THEN [exc |-> "KeyError", v |-> Absent]
                   ELSE [exc |-> "AttributeError", v |-> Absent]

RECURSIVE Resolve(_, _, _)
Resolve(st, value, keys) ==
    IF keys = <<>>
    THEN [exc |-> "none", v |-> value]
    ELSE LET key == Head(keys) IN
         IF HasAttr(st, value, key)
         THEN Resolve(st, GetAttr(st, value, key), Tail(keys))
         ELSE IF value.k = "dict"
              THEN IF key \in DictKeys(value)
                   THEN Resolve(st, DictGet(value, key), Tail(keys))
                   ELSE [exc |-> "KeyError", v |-> Absent]
              ELSE [exc |-> "AttributeError", v |-> Absent]

get_nested_value(st, path) == Resolve(st, Obj, path)

(***************************************************************************)
(* assert_value: the outcome of one assertion on a path other than the     *)
(* reserved one.  ok: the value returned; diag: the line printed; exc: the *)
(* exception that leaves assert_value ("none" when it returns).            *)
(***************************************************************************)
Abs(x) == IF x < 0 THEN -x ELSE x

\* Python's float arithmetic and comparisons on the values: a NaN operand
\* gives a NaN result, and every ordering comparison with NaN is False.
IsNumber(v) == v.k \in {"num", "nan"}
Minus(a, b) == IF a.k = "nan" \/ b.k = "nan" THEN NaN ELSE Num(a.n - b.n)
AbsValue(v) == IF v.k = "nan" THEN NaN ELSE Num(Abs(v.n))
Greater(v, t) == v.k = "num" /\ v.n > t
\* actual != expected: NaN differs from every value, itself included.
NotEqual(a, b) == a.k = "nan" \/ b.k = "nan" \/ a # b

Tolerance(a) ==
    IF a.has_tolerance THEN a.tolerance ELSE DefaultTolerance

Outcome(ok, d, e) == [ok |-> ok, diag |-> d, exc |-> e]

\* Mutant: except AttributeError, without KeyError.
LookupErrorAttributeOnly(e) == e = "AttributeError"

\* except (AttributeError, KeyError) (line 53)
LookupError(e) == e \in {"AttributeError", "KeyError"}

assert_value(st, a) ==
    LET r == get_nested_value(st, a.path)
        actual == r.v
        expected == a.expected
    IN  IF r.exc # "none"
        THEN IF LookupError(r.exc)
             THEN Outcome(FALSE, "cannot_access", "none")
             ELSE Outcome(FALSE, "none", r.exc)
        ELSE IF a.type = "equals"
        THEN IF NotEqual(actual, expected)
             THEN Outcome(FALSE, "mismatch", "none")
             ELSE Outcome(TRUE, "none", "none")
        ELSE IF a.type = "approximately"
        THEN IF ~IsNumber(actual) \/ ~IsNumber(expected)
             THEN Outcome(FALSE, "none", "TypeError")
             ELSE IF Greater(AbsValue(Minus(actual, expected)), Tolerance(a))
                  THEN Outcome(FALSE, "approx_mismatch", "none")
                  ELSE Outcome(TRUE, "none", "none")
        ELSE Outcome(FALSE, "unknown_type", "none")

(***************************************************************************)
(* run_test: the reserved path recommended_action (lines 121-131).         *)
(***************************************************************************)
recommended_action_check(st, a) ==
    IF st["_recommended_action"] = Absent
    THEN Outcome(FALSE, "not_set", "none")
    ELSE IF NotEqual(st["_recommended_action"], a.expected)
         THEN Outcome(FALSE, "rec_mismatch", "none")
         ELSE Outcome(TRUE, "none", "none")

(***************************************************************************)
(* run_test: setup (lines 81-91).                                          *)
(***************************************************************************)
\* Mutant: the subject is constructed once and shared by the tests.
EmotionalStateShared ==
    IF state = NoState
    THEN [NoState EXCEPT !["trust"] = Num(5000), !["metadata"] = Dict("metadata")]
    ELSE state

\* self.implementation.EmotionalState(): a fresh subject.
EmotionalState ==
    [NoState EXCEPT !["trust"] = Num(5000), !["metadata"] = Dict("metadata")]

\* for key, value in init_state.items(): setattr(state, key, value)
ApplyInitialState(st, init) ==
    [a \in Attrs |-> IF init[a] # Absent THEN init[a] ELSE st[a]]

InitKeys(init) == {a \in Attrs : init[a] # Absent}

SetattrCalls(init) == [i \in 1..Cardinality(InitKeys(init)) |-> Call("setattr")]

(***************************************************************************)
(* run_test: the decay fallback of advance_time (lines 107-109).           *)
(***************************************************************************)
\* Mutant: a started interval counts as a whole one.
IntervalsRoundedUp(seconds) == (seconds + DecayInterval - 1) \div DecayInterval

Intervals(seconds) == seconds \div DecayInterval

DecayCalls(n) == [i \in 1..n |-> Call("apply_decay")]

(***************************************************************************)
(* run_test: except Exception (lines 143-147).  Every exception the model  *)
(* raises is an Exception.                                                 *)
(***************************************************************************)
Exceptions == {"IUTError", "TypeError", "AttributeError", "KeyError"}

\* Mutant: except (AttributeError, KeyError), as in assert_value.
CaughtLookupErrorsOnly(e) == e \in {"AttributeError", "KeyError"}

Caught(e) == e \in Exceptions

\* An exception e leaves the body of run_test's try block.
Raised(e) ==
    /\ exc' = e
    /\ IF Caught(e)
       THEN pc' = "verdict" /\ ret' = FALSE /\ diag' = "error"
       ELSE pc' = "aborted" /\ ret' = ret /\ diag' = "traceback"

\* The last step read no item of the kinds other than the one it names.
ReadSetup(s) == setup' = s /\ step' = NoStep /\ assertion' = NoAssertion
ReadStep(s) == setup' = NoSetup /\ step' = s /\ assertion' = NoAssertion
ReadAssertion(a) == setup' = NoSetup /\ step' = NoStep /\ assertion' = a
ReadNothing == setup' = NoSetup /\ step' = NoStep /\ assertion' = NoAssertion

suiteVars == <<nTests, results, report, base, passed, failed, suiteRet, causes>>

(***************************************************************************)
(* Init: the validator as __init__ leaves it (lines 26-30).                *)
(***************************************************************************)
Init ==
    /\ nTests \in 0..MaxTests
    /\ results = <<>>
    /\ report = NoReport
    /\ pc = "init"
    /\ base = 0
    /\ ti = 0
    /\ passed = 0
    /\ failed = 0
    /\ suiteRet = FALSE
    /\ test = NoTest
    /\ setup = NoSetup
    /\ step = NoStep
    /\ assertion = NoAssertion
    /\ si = 0
    /\ ai = 0
    /\ state = NoState
    /\ all_passed = TRUE
    /\ ret = FALSE
    /\ diag = "none"
    /\ exc = "none"
    /\ calls = <<>>
    /\ anyFailed = FALSE
    /\ captured = FALSE
    /\ snapshot = Absent
    /\ causes = <<>>

(***************************************************************************)
(* run_all_tests, lines 151-157: the header and the counters.              *)
(***************************************************************************)
run_all_tests_begin ==
    /\ pc \in {"init", "idle"}
    /\ Len(results) + nTests < MaxResults
    /\ pc' = "loop"
    /\ base' = Len(results)
    /\ passed' = 0
    /\ failed' = 0
    /\ ti' = 0
    /\ causes' = <<>>
    /\ report' = NoReport
    /\ diag' = "none"
    /\ exc' = "none"
    /\ calls' = <<>>
    /\ ReadNothing
    /\ UNCHANGED <<nTests, results, suiteRet, test, si, ai, state, all_passed,
                   ret, anyFailed, captured, snapshot>>

(***************************************************************************)
(* run_all_tests line 159-160 and run_test lines 74-91: the next test is   *)
(* taken from the document and its setup is performed.                     *)
(***************************************************************************)
TakeTest(ns, na) ==
    /\ pc = "loop"
    /\ ti < nTests
    /\ ti' = ti + 1
    /\ test' = [id |-> ti + 1, nSteps |-> ns, nAsserts |-> na]
    /\ si' = 0
    /\ ai' = 0
    /\ anyFailed' = FALSE
    /\ captured' = FALSE
    /\ snapshot' = Absent
    /\ UNCHANGED <<suiteVars, all_passed>>

\* setup['action'] == 'initialize' and neither the constructor nor setattr raises.
setup_initialize ==
    \E ns \in 0..MaxSteps, na \in 0..MaxAsserts, s \in Setups :
        /\ s.action = "initialize"
        /\ TakeTest(ns, na)
        /\ ReadSetup(s)
        /\ state' = ApplyInitialState(EmotionalState, s.initial_state)
        /\ calls' = <<Call("EmotionalState")>> \o SetattrCalls(s.initial_state)
        /\ pc' = "steps"
        /\ exc' = "none"
        /\ diag' = "none"
        /\ UNCHANGED ret

\* The constructor raises, or the first setattr does.
setup_raises ==
    \E ns \in 0..MaxSteps, na \in 0..MaxAsserts, s \in Setups :
        /\ s.action = "initialize"
        /\ TakeTest(ns, na)
        /\ ReadSetup(s)
        /\ \/ /\ calls' = <<Call("EmotionalState")>>
              /\ UNCHANGED state
           \/ /\ InitKeys(s.initial_state) # {}
              /\ calls' = <<Call("EmotionalState"), Call("setattr")>>
              /\ state' = EmotionalState
        /\ Raised("IUTError")

\* Mutant: the diagnostic is printed and the return is missing.
setup_unknown_falls_through ==
    \E ns \in 0..MaxSteps, na \in 0..MaxAsserts, s \in Setups :
        /\ s.action # "initialize"
        /\ TakeTest(ns, na)
        /\ ReadSetup(s)
        /\ calls' = <<>>
        /\ diag' = "unknown_setup"
        /\ pc' = "steps"
        /\ exc' = "none"
        /\ UNCHANGED <<state, ret>>

\* Any other setup action (lines 89-91).
setup_unknown ==
    \E ns \in 0..MaxSteps, na \in 0..MaxAsserts, s \in Setups :
        /\ s.action # "initialize"
        /\ TakeTest(ns, na)
        /\ ReadSetup(s)
        /\ calls' = <<>>
        /\ diag' = "unknown_setup"
        /\ ret' = FALSE
        /\ pc' = "verdict"
        /\ exc' = "none"
        /\ UNCHANGED state

(***************************************************************************)
(* run_test lines 94-115: one step.                                        *)
(***************************************************************************)
TakeStep(s) ==
    /\ pc = "steps"
    /\ si < test.nSteps
    /\ si' = si + 1
    /\ ReadStep(s)
    /\ UNCHANGED <<suiteVars, ti, test, ai, all_passed, anyFailed>>

Continue == pc' = "steps" /\ exc' = "none" /\ diag' = "none" /\ UNCHANGED ret

\* Mutant: the captured value is refreshed after every event.
step_process_event_refreshes ==
    \E s \in Steps :
        /\ s.action = "process_event"
        /\ TakeStep(s)
        /\ calls' = <<Call("process_event")>>
        /\ UNCHANGED <<captured, snapshot>>
        /\ \/ /\ \E v \in TrustVals, r \in ActionVals :
                    state' = [state EXCEPT !["trust"] = v,
                                           !["_recommended_action"] =
                                               IF @ = Absent THEN @ ELSE r]
              /\ Continue
           \/ /\ UNCHANGED state
              /\ Raised("IUTError")

step_process_event ==
    \E s \in Steps :
        /\ s.action = "process_event"
        /\ TakeStep(s)
        /\ calls' = <<Call("process_event")>>
        /\ UNCHANGED <<captured, snapshot>>
        /\ \/ /\ \E v \in TrustVals : state' = [state EXCEPT !["trust"] = v]
              /\ Continue
           \/ /\ UNCHANGED state
              /\ Raised("IUTError")

\* Mutant: the decay loop is not in an else branch.
step_advance_time_native_then_decay ==
    \E s \in Steps :
        /\ s.action = "advance_time"
        /\ s.native
        /\ TakeStep(s)
        /\ calls' = <<CallWith("advance_time", s.seconds)>>
                        \o DecayCalls(Intervals(s.seconds))
        /\ UNCHANGED <<captured, snapshot>>
        /\ \/ /\ \E v \in TrustVals : state' = [state EXCEPT !["trust"] = v]
              /\ Continue
           \/ /\ UNCHANGED state
              /\ Raised("IUTError")

\* hasattr(state, 'advance_time'): one call of advance_time(seconds).
step_advance_time_native ==
    \E s \in Steps :
        /\ s.action = "advance_time"
        /\ s.native
        /\ TakeStep(s)
        /\ calls' = <<CallWith("advance_time", s.seconds)>>
        /\ UNCHANGED <<captured, snapshot>>
        /\ \/ /\ \E v \in TrustVals : state' = [state EXCEPT !["trust"] = v]
              /\ Continue
           \/ /\ UNCHANGED state
              /\ Raised("IUTError")

\* The fallback: apply_decay() once per whole interval; a call may raise.
step_advance_time_decay ==
    \E s \in Steps :
        /\ s.action = "advance_time"
        /\ ~s.native
        /\ TakeStep(s)
        /\ UNCHANGED <<captured, snapshot>>
        /\ \/ /\ calls' = DecayCalls(Intervals(s.seconds))
              /\ IF Intervals(s.seconds) > 0
                 THEN \E v \in TrustVals : state' = [state EXCEPT !["trust"] = v]
                 ELSE UNCHANGED state
              /\ Continue
           \/ \E j \in 1..Intervals(s.seconds) :
                 /\ calls' = DecayCalls(j)
                 /\ IF j > 1
                    THEN \E v \in TrustVals : state' = [state EXCEPT !["trust"] = v]
                    ELSE UNCHANGED state
                 /\ Raised("IUTError")

step_get_recommended_action ==
    \E s \in Steps :
        /\ s.action = "get_recommended_action"
        /\ TakeStep(s)
        /\ calls' = <<Call("recommended_action")>>
        /\ \/ /\ \E v \in ActionVals :
                    /\ state' = [state EXCEPT !["_recommended_action"] = v]
                    /\ snapshot' = v
              /\ captured' = TRUE
              /\ Continue
           \/ /\ UNCHANGED <<state, captured, snapshot>>
              /\ Raised("IUTError")

\* Mutant: the diagnostic is printed and the return is missing.
step_unknown_falls_through ==
    \E s \in Steps :
        /\ s.action \in UnknownStepActions
        /\ TakeStep(s)
        /\ calls' = <<>>
        /\ diag' = "unknown_step"
        /\ pc' = "steps"
        /\ exc' = "none"
        /\ UNCHANGED <<state, captured, snapshot, ret>>

\* Lines 113-115.
step_unknown ==
    \E s \in Steps :
        /\ s.action \in UnknownStepActions
        /\ TakeStep(s)
        /\ calls' = <<>>
        /\ diag' = "unknown_step"
        /\ ret' = FALSE
        /\ pc' = "verdict"
        /\ exc' = "none"
        /\ UNCHANGED <<state, captured, snapshot>>

\* Mutant: the step loop can be left before its last step.
steps_done_early ==
    /\ pc = "steps"
    /\ si <= test.nSteps
    /\ pc' = "asserts"
    /\ all_passed' = TRUE
    /\ ReadNothing
    /\ calls' = <<>>
    /\ exc' = "none"
    /\ diag' = "none"
    /\ UNCHANGED <<suiteVars, ti, test, si, ai, state, ret, anyFailed, captured, snapshot>>

\* The steps are exhausted: all_passed = True (line 118).
steps_done ==
    /\ pc = "steps"
    /\ si = test.nSteps
    /\ pc' = "asserts"
    /\ all_passed' = TRUE
    /\ ReadNothing
    /\ calls' = <<>>
    /\ exc' = "none"
    /\ diag' = "none"
    /\ UNCHANGED <<suiteVars, ti, test, si, ai, state, ret, anyFailed, captured, snapshot>>

(***************************************************************************)
(* run_test lines 119-134: one assertion.                                  *)
(***************************************************************************)
TakeAssertion(a) ==
    /\ pc = "asserts"
    /\ ai < test.nAsserts
    /\ ai' = ai + 1
    /\ ReadAssertion(a)
    /\ calls' = <<>>
    /\ UNCHANGED <<suiteVars, ti, test, si, state, captured, snapshot>>

\* Mutant: the first failing assertion ends the test.
CollectShortCircuit(o) ==
    /\ all_passed' = (all_passed /\ o.ok)
    /\ anyFailed' = (anyFailed \/ ~o.ok)
    /\ exc' = "none"
    /\ IF o.ok
       THEN pc' = "asserts" /\ diag' = o.diag /\ UNCHANGED ret
       ELSE pc' = "verdict" /\ diag' = "FAILED" /\ ret' = FALSE

\* The assertion returned o.ok and the loop goes on.
Collect(o) ==
    /\ all_passed' = (all_passed /\ o.ok)
    /\ anyFailed' = (anyFailed \/ ~o.ok)
    /\ diag' = o.diag
    /\ exc' = "none"
    /\ pc' = "asserts"
    /\ UNCHANGED ret

\* Mutant: the reserved path looks at the type as assert_value does.
assert_recommended_action_typed ==
    \E a \in Assertions :
        /\ a.path = <<"recommended_action">>
        /\ TakeAssertion(a)
        /\ IF a.type \in {"equals", "approximately"}
           THEN Collect(recommended_action_check(state, a))
           ELSE Collect(Outcome(FALSE, "unknown_type", "none"))

assert_recommended_action ==
    \E a \in Assertions :
        /\ a.path = <<"recommended_action">>
        /\ TakeAssertion(a)
        /\ Collect(recommended_action_check(state, a))

assert_other ==
    \E a \in Assertions :
        /\ a.path # <<"recommended_action">>
        /\ TakeAssertion(a)
        /\ LET o == assert_value(state, a) IN
           IF o.exc = "none"
           THEN Collect(o)
           ELSE /\ Raised(o.exc)
                /\ UNCHANGED <<all_passed, anyFailed>>

\* Mutant: a test with no assertion is not passed.
verdict_needs_assertion ==
    /\ pc = "asserts"
    /\ ai = test.nAsserts
    /\ ret' = (all_passed /\ ai > 0)
    /\ diag' = IF all_passed /\ ai > 0 THEN "PASSED" ELSE "FAILED"
    /\ pc' = "verdict"
    /\ ReadNothing
    /\ calls' = <<>>
    /\ exc' = "none"
    /\ UNCHANGED <<suiteVars, ti, test, si, ai, state, all_passed, anyFailed,
                   captured, snapshot>>

\* Lines 136-141.
verdict ==
    /\ pc = "asserts"
    /\ ai = test.nAsserts
    /\ ret' = all_passed
    /\ diag' = IF all_passed THEN "PASSED" ELSE "FAILED"
    /\ pc' = "verdict"
    /\ ReadNothing
    /\ calls' = <<>>
    /\ exc' = "none"
    /\ UNCHANGED <<suiteVars, ti, test, si, ai, state, all_passed, anyFailed,
                   captured, snapshot>>

(***************************************************************************)
(* run_all_tests lines 160-170: the result is recorded and tallied.        *)
(***************************************************************************)
\* Mutant: the status does not look at the value run_test returned.
StatusAlwaysPassed(result) == "PASSED"

Status(result) == IF result THEN "PASSED" ELSE "FAILED"

record_result ==
    /\ pc = "verdict"
    /\ results' = Append(results,
                         [id |-> test.id, name |-> test.id, status |-> Status(ret)])
    /\ passed' = IF ret THEN passed + 1 ELSE passed
    /\ failed' = IF ret THEN failed ELSE failed + 1
    /\ causes' = Append(causes, diag)
    /\ pc' = "loop"
    /\ ReadNothing
    /\ calls' = <<>>
    /\ exc' = "none"
    /\ diag' = "none"
    /\ UNCHANGED <<nTests, report, base, suiteRet, ti, test, si, ai, state,
                   all_passed, ret, anyFailed, captured, snapshot>>

(***************************************************************************)
(* run_all_tests lines 172-180.                                            *)
(***************************************************************************)
run_all_tests_return ==
    /\ pc = "loop"
    /\ ti = nTests
    /\ suiteRet' = (failed = 0)
    /\ diag' = IF failed = 0 THEN "CONFORMANT" ELSE "NON-CONFORMANT"
    /\ pc' = "idle"
    /\ ReadNothing
    /\ calls' = <<>>
    /\ exc' = "none"
    /\ test' = NoTest
    /\ si' = 0
    /\ ai' = 0
    /\ state' = NoState
    /\ all_passed' = TRUE
    /\ ret' = FALSE
    /\ anyFailed' = FALSE
    /\ captured' = FALSE
    /\ snapshot' = Absent
    /\ UNCHANGED <<nTests, results, report, base, passed, failed, causes, ti>>

(***************************************************************************)
(* generate_report (lines 184-214).                                        *)
(***************************************************************************)
CountPassed(rs) == Cardinality({i \in 1..Len(rs) : rs[i].status = "PASSED"})

\* Mutant: the two wordings are swapped.
ConformanceStatementSwapped(nfailed) ==
    IF nfailed = 0 THEN "NOT conformant" ELSE "fully conformant"

ConformanceStatement(nfailed) ==
    IF nfailed = 0 THEN "fully conformant" ELSE "NOT conformant"

\* Mutant: the quotient is taken whatever total is (0/0 for no results).
PassRateUnguarded(npassed, total) == <<npassed * 100, total>>

\* pass_rate is the exact quotient num/den, kept as the pair <<num, den>>.
PassRate(npassed, total) ==
    IF total > 0 THEN <<npassed * 100, total>> ELSE <<0, 1>>

MakeReport(rs) ==
    LET total == Len(rs)
        npassed == CountPassed(rs)
        nfailed == total - npassed
    IN  [total |-> total, passed |-> npassed, failed |-> nfailed, errors |-> 0,
         pass_rate |-> PassRate(npassed, total), test_details |-> rs,
         conformance_statement |-> ConformanceStatement(nfailed)]

generate_report ==
    /\ pc \in {"init", "idle"}
    /\ report' = MakeReport(results)
    /\ diag' = "report_written"
    /\ ReadNothing
    /\ calls' = <<>>
    /\ exc' = "none"
    /\ UNCHANGED <<nTests, results, base, passed, failed, suiteRet, causes, ti,
                   test, si, ai, state, all_passed, ret, anyFailed, captured, snapshot,
                   pc>>

Next ==
    \/ run_all_tests_begin
    \/ setup_initialize
    \/ setup_raises
    \/ setup_unknown
    \/ step_process_event
    \/ step_advance_time_native
    \/ step_advance_time_decay
    \/ step_get_recommended_action
    \/ step_unknown
    \/ steps_done
    \/ assert_recommended_action
    \/ assert_other
    \/ verdict
    \/ record_result
    \/ run_all_tests_return
    \/ generate_report

Spec == Init /\ [][Next]_vars

(***************************************************************************)
(* Properties.                                                             *)
(***************************************************************************)
InTest == pc \in {"steps", "asserts", "verdict"}
KnownStepActions == {"process_event", "advance_time", "get_recommended_action"}
Recorded(i) == results[base + i]

\* C1: a fault raised in a test's setup, steps or assertions never leaves
\* run_test: the exception is caught, run_test returns False for that test
\* (recorded FAILED), run_all_tests is never aborted, and when it returns
\* every test of the document has been run and has its record.
C1_FaultsContained ==
    /\ pc # "aborted"
    /\ (exc # "none" => pc = "verdict" /\ ~ret /\ diag = "error")
    /\ \A i \in 1..Len(causes) :
          causes[i] = "error" => Recorded(i).status = "FAILED"
    /\ (pc = "loop" => Len(causes) = ti)
    /\ (pc = "idle" => Len(causes) = nTests /\ Len(results) = base + nTests)

\* A run of two tests has returned; the first test raised and the second
\* one was run and passed.
C1_Witness ==
    /\ pc = "idle"
    /\ causes = <<"error", "PASSED">>
    /\ Recorded(2).status = "PASSED"

\* C2 (as amended): a failing assertion never ends the assertion loop; the
\* loop is left early only by an exception raised while an assertion is
\* evaluated, and the test is then Failed; otherwise every assertion is
\* evaluated once all steps are done, and the test is Failed if one of them
\* failed and Passed if none did.
C2_AssertionsCollected ==
    /\ (pc = "asserts" => si = test.nSteps /\ ai <= test.nAsserts)
    /\ (assertion # NoAssertion /\ exc = "none" => pc = "asserts")
    /\ (assertion # NoAssertion /\ pc = "verdict" => exc # "none" /\ ~ret)
    /\ (pc = "verdict" /\ diag \in {"PASSED", "FAILED"} =>
          /\ si = test.nSteps
          /\ ai = test.nAsserts
          /\ ret = ~anyFailed
          /\ (diag = "FAILED") = anyFailed)

\* The second of two assertions has been evaluated and passed after the
\* first one failed.
C2_Witness ==
    /\ pc = "asserts"
    /\ test.nAsserts = 2
    /\ ai = 2
    /\ assertion # NoAssertion
    /\ diag = "none"
    /\ anyFailed

\* C2 as claimed: once the steps are done, run_test does not return before
\* every assertion of the test has been evaluated.
C2_EveryAssertionEvaluated ==
    (pc = "verdict" /\ setup = NoSetup /\ step = NoStep) => ai = test.nAsserts

\* C3: a step whose action is not process_event, advance_time or
\* get_recommended_action makes run_test return False at once, with no call
\* on the subject and no assertion evaluated; the test is recorded FAILED
\* and the run still takes every test of the document.
C3_UnknownStepFailsTest ==
    /\ (step.action \notin KnownStepActions \cup {"none"} =>
          /\ pc = "verdict"
          /\ ~ret
          /\ exc = "none"
          /\ diag = "unknown_step"
          /\ calls = <<>>
          /\ ai = 0)
    /\ \A i \in 1..Len(causes) :
          causes[i] = "unknown_step" => Recorded(i).status = "FAILED"
    /\ (pc = "loop" /\ ti > 0 /\ causes[ti] = "unknown_step" =>
          ai = 0 /\ si <= test.nSteps)
    /\ (pc = "idle" => Len(causes) = nTests)

\* The second test stops at an unknown step that is not its last step, with
\* assertions left unevaluated, after the first test stopped the same way.
C3_Witness ==
    /\ pc = "verdict"
    /\ step.action = "teleport"
    /\ si < test.nSteps
    /\ test.nAsserts > 0
    /\ causes = <<"unknown_step">>

\* C4: a setup action other than initialize makes run_test return False at
\* once, with no exception, no subject constructed, no step executed and no
\* assertion evaluated.
C4_UnknownSetupFailsTest ==
    /\ (setup.action \notin {"initialize", "none"} =>
          /\ pc = "verdict"
          /\ ~ret
          /\ exc = "none"
          /\ diag = "unknown_setup"
          /\ calls = <<>>
          /\ si = 0
          /\ ai = 0)
    /\ \A i \in 1..Len(causes) :
          causes[i] = "unknown_setup" => Recorded(i).status = "FAILED"
    /\ (pc = "loop" /\ ti > 0 /\ causes[ti] = "unknown_setup" =>
          si = 0 /\ ai = 0)

\* A test with steps and assertions was closed by its unknown setup action.
C4_Witness ==
    /\ pc = "loop"
    /\ ti > 0
    /\ causes[ti] = "unknown_setup"
    /\ test.nSteps > 0
    /\ test.nAsserts > 0

C6_UncapturedDiagnosed ==
    (assertion.path = <<"recommended_action">> /\ ~captured) =>
        (pc = "asserts" /\ diag = "not_set" /\ ~all_passed)

\* C7: the records a run appends are one per test taken, in document
\* order, PASSED exactly for the tests run_test returned True for; passed
\* and failed count them, and run_all_tests returns True iff failed is 0.
C7_RecordsAndTally ==
    /\ Len(results) = base + Len(causes)
    /\ \A i \in 1..Len(causes) :
          /\ Recorded(i).id = i
          /\ Recorded(i).status \in {"PASSED", "FAILED"}
          /\ (Recorded(i).status = "PASSED") = (causes[i] = "PASSED")
    /\ (pc = "verdict" => (diag = "PASSED") = ret)
    /\ (pc = "loop" /\ ti > 0 => (Recorded(ti).status = "PASSED") = ret)
    /\ (InTest => Len(causes) = ti - 1)
    /\ (pc \in {"loop", "idle"} => Len(causes) = ti)
    /\ (pc # "init" =>
          /\ passed = Cardinality({i \in 1..Len(causes) : Recorded(i).status = "PASSED"})
          /\ failed = Cardinality({i \in 1..Len(causes) : Recorded(i).status = "FAILED"})
          /\ passed + failed = Len(causes))
    /\ (pc = "idle" =>
          /\ passed + failed = nTests
          /\ suiteRet = (failed = 0)
          /\ suiteRet = (\A i \in 1..nTests : Recorded(i).status = "PASSED"))

\* A run of two tests has returned False: the first test failed, the second
\* passed.
C7_Witness ==
    /\ pc = "idle"
    /\ nTests = 2
    /\ Recorded(1).status = "FAILED"
    /\ Recorded(2).status = "PASSED"
    /\ passed = 1
    /\ failed = 1
    /\ ~suiteRet

\* C8: whatever the earlier tests did, a test that is set up starts from a
\* subject that holds the constructor's values overridden by its own
\* initial_state and nothing else, with no captured recommended_action of
\* an earlier test; and all_passed reflects the assertions of this test
\* alone.
C8_TestsIsolated ==
    /\ (setup.action = "initialize" /\ exc = "none" =>
          LET init == setup.initial_state IN
          /\ state["trust"] =
                IF init["trust"] # Absent THEN init["trust"] ELSE Num(5000)
          /\ state["metadata"] =
                IF init["metadata"] # Absent THEN init["metadata"] ELSE Dict("metadata")
          /\ state["_recommended_action"] = init["_recommended_action"]
          /\ ~captured
          /\ ~anyFailed)
    /\ (pc = "asserts" => all_passed = ~anyFailed)
    /\ (pc = "verdict" /\ diag \in {"PASSED", "FAILED"} => ret = ~anyFailed)

\* The second test has been set up after a first test that captured a
\* recommended action and failed.
C8_Witness ==
    /\ setup.action = "initialize"
    /\ exc = "none"
    /\ test.id = 2
    /\ causes = <<"FAILED">>

\* C9 as claimed: an assertion whose type is neither equals nor
\* approximately fails, whatever its path; for the reserved path, stated
\* for the tests in which a get_recommended_action step captured the value.
C9_UnknownTypeFails ==
    (/\ assertion.type \notin {"equals", "approximately", "none"}
     /\ (assertion.path = <<"recommended_action">> => captured)) =>
        (~all_passed /\ diag # "none")

\* C10: the statement of a report says 'fully conformant' iff the report's
\* failed count is 0, and that count is total - passed over the recorded
\* results.
C10_ConformanceStatement ==
    report # NoReport =>
        /\ report.total = Len(results)
        /\ report.passed =
              Cardinality({i \in 1..Len(results) : results[i].status = "PASSED"})
        /\ report.failed = report.total - report.passed
        /\ report.conformance_statement \in {"fully conformant", "NOT conformant"}
        /\ (report.conformance_statement = "fully conformant") = (report.failed = 0)
        /\ (report.conformance_statement = "fully conformant") =
              (\A i \in 1..Len(results) : results[i].status = "PASSED")

\* A report over one passed and one failed test says NOT conformant.
C10_Witness ==
    /\ report # NoReport
    /\ report.total = 2
    /\ report.passed = 1
    /\ report.conformance_statement = "NOT conformant"

\* C11: the pass_rate of a report is passed / total * 100 over the recorded
\* results (as the quotient num/den: num * total = passed * 100 * den, with
\* den not 0), and it is 0, computed without a division by zero, when no
\* result is recorded.
C11_PassRate ==
    report # NoReport =>
        LET num == report.pass_rate[1]
            den == report.pass_rate[2]
        IN  /\ den > 0
            /\ report.total = Len(results)
            /\ report.passed = CountPassed(results)
            /\ (report.total > 0 => num * report.total = report.passed * 100 * den)
            /\ (report.total = 0 => num = 0)
            /\ 0 <= num /\ num <= 100 * den

\* The report of a run over an empty test array: pass_rate is 0.
C11_Witness ==
    /\ pc = "idle"
    /\ nTests = 0
    /\ report # NoReport
    /\ report.total = 0
    /\ report.pass_rate[1] = 0

\* C12 as claimed: an approximately assertion whose comparison is evaluated
\* passes iff |actual - expected| <= tolerance, the tolerance being 0.001
\* (10 units) when the assertion has none.
C12_WithinTolerance ==
    (/\ assertion.type = "approximately"
     /\ assertion.path = <<"trust">>
     /\ exc = "none") =>
        LET actual == state["trust"]
            tolerance == IF assertion.has_tolerance THEN assertion.tolerance ELSE 10
            within == /\ actual.k = "num"
                      /\ Abs(actual.n - assertion.expected.n) <= tolerance
        IN  (diag = "none") = within

\* C13: a path is resolved segment by segment from the subject: a segment
\* naming an attribute of the current value reads the attribute (trust, and
\* for the mapping metadata its method items, although the mapping also has
\* an entry items); a segment naming only an entry of a mapping reads the
\* entry (metadata.trend); any other segment fails.
C13_AttributeBeforeKey ==
    assertion.type = "equals" =>
        /\ (assertion.path = <<"trust">> =>
              (diag = "none") = (state["trust"].k = "num" /\ state["trust"] = assertion.expected))
        /\ (assertion.path = <<"metadata", "trend">> =>
              (diag = "none") = (assertion.expected = Str("soothe")))
        /\ (assertion.path = <<"metadata", "items">> => diag = "mismatch")
        /\ (assertion.path \in {<<"mood">>, <<"metadata", "nosuch">>} =>
              diag = "cannot_access")

\* metadata.items was compared with the value of the entry items and
\* differed: the attribute was read.
C13_Witness ==
    /\ assertion.type = "equals"
    /\ assertion.path = <<"metadata", "items">>
    /\ assertion.expected = Str("soothe")
    /\ diag = "mismatch"
    /\ pc = "asserts"

\* The paths with a segment that cannot be resolved: mood is no attribute
\* of the subject, which is no mapping; nosuch is no entry of metadata.
Unresolvable == {<<"mood">>, <<"metadata", "nosuch">>}

\* C14: an assertion whose path cannot be resolved fails with the 'cannot
\* access' diagnosis whatever its type, raises nothing and leaves the test
\* in its assertion loop; the next step of the test then evaluates the next
\* assertion, or, after the last one, returns False with the test FAILED.
C14_AddressErrorNotFatal ==
    [][ /\ (assertion'.path \in Unresolvable =>
              /\ pc' = "asserts"
              /\ exc' = "none"
              /\ diag' = "cannot_access"
              /\ ~all_passed'
              /\ ai' = ai + 1)
        /\ (assertion.path \in Unresolvable /\ ai < test.nAsserts =>
              /\ assertion' # NoAssertion
              /\ ai' = ai + 1)
        /\ (assertion.path \in Unresolvable /\ ai = test.nAsserts =>
              /\ pc' = "verdict"
              /\ ~ret'
              /\ diag' = "FAILED"
              /\ exc' = "none") ]_vars

\* The first of two assertions could not be resolved (its type is
\* approximately) and the test goes on with the second.
C14_Witness ==
    /\ assertion.path = <<"mood">>
    /\ assertion.type = "approximately"
    /\ diag = "cannot_access"
    /\ pc = "asserts"
    /\ ai = 1
    /\ test.nAsserts = 2

\* The line that closes a test stopped by an unknown action or a fault.
Stopped == {"unknown_setup", "unknown_step", "error"}

\* C15: a test without assertions whose setup and steps complete (no
\* unknown action, no fault) is Passed: run_test returns True and the record
\* is PASSED.
C15_NoAssertionsPassed ==
    /\ (pc = "asserts" /\ test.nAsserts = 0 => all_passed)
    /\ (pc = "verdict" /\ test.nAsserts = 0 /\ diag \notin Stopped =>
          /\ ret
          /\ diag = "PASSED"
          /\ si = test.nSteps)
    /\ (pc = "loop" /\ ti > 0 /\ test.nAsserts = 0 /\ causes[ti] \notin Stopped =>
          /\ Recorded(ti).status = "PASSED"
          /\ causes[ti] = "PASSED")

\* A test with two steps and no assertion was recorded PASSED.
C15_Witness ==
    /\ pc = "loop"
    /\ ti > 0
    /\ test.nAsserts = 0
    /\ test.nSteps = 2
    /\ si = 2
    /\ Recorded(ti).status = "PASSED"

\* C16: in one test the subject is constructed and every initial_state
\* field assigned before any step is taken (no step and no assertion has
\* been taken when setup is done); a step is taken only while no assertion
\* of the test has been evaluated, as the next one of the document; an
\* assertion is evaluated only when all steps of the test have been taken.
C16_LifecycleOrder ==
    /\ (setup.action = "initialize" /\ exc = "none" =>
          /\ pc = "steps"
          /\ si = 0
          /\ ai = 0
          /\ \A a \in InitKeys(setup.initial_state) :
                state[a] = setup.initial_state[a])
    /\ (pc = "steps" => ai = 0 /\ si <= test.nSteps /\ state["trust"] # Absent)
    /\ (step # NoStep =>
          /\ ai = 0
          /\ 1 <= si /\ si <= test.nSteps
          /\ state["trust"] # Absent)
    /\ (pc = "asserts" => si = test.nSteps)
    /\ (assertion # NoAssertion =>
          /\ si = test.nSteps
          /\ 1 <= ai /\ ai <= test.nAsserts)
    /\ (InTest => test.id = ti)

\* The first assertion of a test has been evaluated after its two steps, on
\* a subject that was given its initial trust.
C16_Witness ==
    /\ assertion # NoAssertion
    /\ ai = 1
    /\ si = 2
    /\ test.nSteps = 2
    /\ state["trust"] = Num(6000)

\* C17: an advance_time step on a subject that has advance_time makes one
\* call on the subject, advance_time(seconds) with the seconds of the step,
\* and no apply_decay() call, whatever seconds is and whether or not the
\* call raises.
C17_NativeAdvanceTime ==
    (step.action = "advance_time" /\ step.native) =>
        /\ Len(calls) = 1
        /\ calls[1].name = "advance_time"
        /\ calls[1].arg = step.seconds
        /\ \A i \in 1..Len(calls) : calls[i].name # "apply_decay"

\* 899 seconds were advanced by one advance_time(899) call.
C17_Witness ==
    /\ step.action = "advance_time"
    /\ step.native
    /\ step.seconds = 899
    /\ exc = "none"
    /\ calls = <<CallWith("advance_time", 899)>>

\* C18: once a get_recommended_action step of the test has returned, the
\* value kept for the assertions is what recommended_action() returned at
\* the latest such step, through every later process_event and advance_time
\* step, and an assertion on recommended_action passes iff expected equals
\* that value.
C18_SnapshotCompared ==
    /\ (captured => snapshot \in ActionVals /\ state["_recommended_action"] = snapshot)
    /\ (step.action = "get_recommended_action" /\ exc = "none" => captured)
    /\ (assertion.path = <<"recommended_action">> /\ captured =>
          /\ diag \in {"none", "rec_mismatch"}
          /\ (diag = "none") = (assertion.expected = snapshot)
          /\ (diag = "rec_mismatch" => ~all_passed))

\* A process_event step changed the trust of the subject after the value
\* was captured by the first step of the test.
C18_Witness ==
    /\ step.action = "process_event"
    /\ exc = "none"
    /\ si = 2
    /\ captured
    /\ state["trust"] \in TrustVals
    /\ state["_recommended_action"] = snapshot

\* C19 as claimed: a report generated after a run_all_tests call has one
\* record per test of the suite, in document order, and says 'fully
\* conformant' iff that call returned True.
C19_ReportAgreesWithRun ==
    (pc = "idle" /\ report # NoReport) =>
        /\ report.total = nTests
        /\ Len(report.test_details) = nTests
        /\ \A i \in 1..nTests : report.test_details[i].id = i
        /\ (report.conformance_statement = "fully conformant") = suiteRet

\* C20: an assertion on the reserved path raises nothing and is decided by
\* the kept value and expected alone: it fails as 'not set' iff no value is
\* kept, passes iff the kept value equals expected, and is a mismatch
\* otherwise, whatever its type and tolerance are (never an unknown type, a
\* tolerance comparison or a TypeError).
C20_ReservedPathIgnoresType ==
    assertion.path = <<"recommended_action">> =>
        LET kept == state["_recommended_action"] IN
        /\ exc = "none"
        /\ pc = "asserts"
        /\ diag \in {"none", "not_set", "rec_mismatch"}
        /\ (diag = "not_set") = (kept = Absent)
        /\ (diag = "none") = (kept = assertion.expected)
        /\ (diag # "none" => ~all_passed)

\* An approximately assertion with a tolerance passed on the reserved path
\* against a string.
C20_Witness ==
    /\ assertion.path = <<"recommended_action">>
    /\ assertion.type = "approximately"
    /\ assertion.has_tolerance
    /\ assertion.expected = Str("soothe")
    /\ diag = "none"
    /\ all_passed

====
